---- MODULE Spec2Model ----
(***************************************************************************)
(* Model of the NASA APOD ingestion pipeline (src/src/apod_pipeline.py):   *)
(* the SQLite store written by persist_entries and the retry loop and      *)
(* normalization of fetch_apod_range.                                      *)
(***************************************************************************)
EXTENDS Integers, Sequences, FiniteSets, TLC

VARIABLES
    \* ---- the SQLite database file (persist_entries / ensure_schema)
    rows,         \* rows of table apod_entries, in rowid order
    schema,       \* names of the schema objects that exist in the file
    clock,        \* CURRENT_TIMESTAMP, in whole seconds
    lastBatch,    \* argument of the most recent persist_entries call
    lastOutcome,  \* "none" | "returned" | "raised" for that call
    lastReturn,   \* value returned by that call (NoReturn when it raised)
    upserted,     \* history: per date, the latest entry a committed call
                  \* wrote and the timestamp of that statement
    opened,       \* whether that call connected to the database file
    repeated,     \* history: that call got the batch of the call before it,
                  \* which had returned
    \* ---- one call of fetch_apod_range
    retries,      \* parameter retries
    retry_wait,   \* parameter retry_wait
    fpc,          \* "idle" | "loop" | "normalize" | "returned" | "raised"
    attempt,      \* loop variable of the for statement
    requests,     \* number of requests.get calls issued
    sleeps,       \* arguments of the time.sleep calls that completed
    statuses,     \* outcome of each request: status code, 0 for no response
    last,         \* the most recent outcome in full
    last_error,   \* local variable last_error
    raised,       \* the exception that ended the call
    payload,      \* local variable payload
    result        \* the returned list

\* resolve_date_range
VARIABLES
    days,         \* argument days
    start,        \* argument start: None or a date
    end,          \* argument end: None or a date
    today,        \* dt.date.today() during the call
    rpc,          \* "idle", "call", "returned" or "raised"
    resolved,     \* the returned (start, end), NoRange until then
    range_error   \* the exception raised, "None" until then

resolveVars == <<days, start, end, today, rpc, resolved, range_error>>

storeVars == <<rows, schema, clock, lastBatch, lastOutcome, lastReturn,
               upserted, opened, repeated>>
fetchVars == <<retries, retry_wait, fpc, attempt, requests, sleeps, statuses,
               last, last_error, raised, payload, result>>
vars == <<rows, schema, clock, lastBatch, lastOutcome, lastReturn, upserted,
          opened, repeated,
          days, start, end, today, rpc, resolved, range_error,
          retries, retry_wait, fpc, attempt, requests, sleeps, statuses,
          last, last_error, raised, payload, result>>

(***************************************************************************)
(* Bounds                                                                  *)
(***************************************************************************)
MaxBatch == 2
MaxClock == 1
MaxRetries == 2
MaxHeaderLen == 1
MaxPayloadLen == 1
MaxCandidates == 3

(***************************************************************************)
(* Values                                                                  *)
(***************************************************************************)
NULL == "<NULL>"        \* Python None / SQL NULL / JSON null
ABSENT == "<absent>"    \* key not present in a JSON object
NoReturn == -1

Dates == {"2024-02-01", "2024-02-02"}

RestFields == {"explanation", "media_type", "url", "hdurl", "thumbnail_url",
               "service_version", "copyright"}
NonKeyFields == {"title"} \cup RestFields

RestNone == [explanation |-> NULL, media_type |-> NULL, url |-> NULL,
             hdurl |-> NULL, thumbnail_url |-> NULL,
             service_version |-> NULL, copyright |-> NULL]
RestFull == [explanation |-> "One", media_type |-> "image",
             url |-> "http://example.com/1", hdurl |-> "http://example.com/hd",
             thumbnail_url |-> "http://example.com/t",
             service_version |-> "v1", copyright |-> "NASA"]
RestMissing == [explanation |-> ABSENT, media_type |-> ABSENT, url |-> ABSENT,
                hdurl |-> ABSENT, thumbnail_url |-> ABSENT,
                service_version |-> ABSENT, copyright |-> ABSENT]

MkEntry(d, t, r) ==
    [date |-> d, title |-> t, explanation |-> r.explanation,
     media_type |-> r.media_type, url |-> r.url, hdurl |-> r.hdurl,
     thumbnail_url |-> r.thumbnail_url,
     service_version |-> r.service_version, copyright |-> r.copyright]

\* Entries handed to persist_entries; title None violates NOT NULL.
StoreEntries ==
    { MkEntry("2024-02-01", "First", RestNone),
      MkEntry("2024-02-01", "First-updated", RestFull),
      MkEntry("2024-02-02", "Second", RestFull),
      MkEntry("2024-02-02", NULL, RestNone) }

SeqsUpTo(S, n) == UNION { [1..k -> S] : k \in 0..n }

Batches == SeqsUpTo(StoreEntries, MaxBatch)

(***************************************************************************)
(* Store: ensure_schema and persist_entries                                *)
(***************************************************************************)
ensure_schema(objs) == objs \cup {"apod_entries", "idx_apod_media_type"}

InsertedRow(e, ts) ==
    [date |-> e.date, title |-> e.title, explanation |-> e.explanation,
     media_type |-> e.media_type, url |-> e.url, hdurl |-> e.hdurl,
     thumbnail_url |-> e.thumbnail_url,
     service_version |-> e.service_version, copyright |-> e.copyright,
     fetched_at |-> ts]

\* ON CONFLICT(date) DO UPDATE SET ... : the row keeps its date.
UpdatedRow(old, e, ts) ==
    [date |-> old.date, title |-> e.title, explanation |-> e.explanation,
     media_type |-> e.media_type, url |-> e.url, hdurl |-> e.hdurl,
     thumbnail_url |-> e.thumbnail_url,
     service_version |-> e.service_version, copyright |-> e.copyright,
     fetched_at |-> ts]

\* One execution of the INSERT ... ON CONFLICT statement for entry e.
UpsertAlwaysInserts(tbl, e, ts) ==
    IF e.title = NULL
    THEN [ok |-> FALSE, rows |-> tbl]
    ELSE [ok |-> TRUE, rows |-> Append(tbl, InsertedRow(e, ts))]

UpsertKeepExisting(tbl, e, ts) ==
    IF e.title = NULL
    THEN [ok |-> FALSE, rows |-> tbl]
    ELSE IF \E i \in 1..Len(tbl) : tbl[i].date = e.date
    THEN [ok |-> TRUE, rows |-> tbl]
    ELSE [ok |-> TRUE, rows |-> Append(tbl, InsertedRow(e, ts))]

Upsert(tbl, e, ts) ==
    IF e.title = NULL
    THEN [ok |-> FALSE, rows |-> tbl]            \* NOT NULL constraint failed
    ELSE IF \E i \in 1..Len(tbl) : tbl[i].date = e.date
    THEN [ok |-> TRUE,
          rows |-> [i \in 1..Len(tbl) |->
                      IF tbl[i].date = e.date
                      THEN UpdatedRow(tbl[i], e, ts) ELSE tbl[i]]]
    ELSE [ok |-> TRUE, rows |-> Append(tbl, InsertedRow(e, ts))]

\* executemany: the statement once per entry, in order, inside the
\* transaction; stops at the first failing entry.
RECURSIVE executemany(_, _, _, _)
executemany(tbl, batch, stamps, i) ==
    IF i > Len(batch)
    THEN [ok |-> TRUE, rows |-> tbl]
    ELSE LET r == Upsert(tbl, batch[i], stamps[i])
         IN IF r.ok
            THEN executemany(r.rows, batch, stamps, i + 1)
            ELSE [ok |-> FALSE, rows |-> r.rows]

\* Leaving the "with sqlite3.connect(...)" block: commit, or roll back when
\* the block raised.
ConnectionExitKeepsPartial(before, r) == r.rows

ConnectionExit(before, r) == IF r.ok THEN r.rows ELSE before

\* CURRENT_TIMESTAMP read by each statement of the batch: time does not go
\* backwards during the call.
StampSeqs(n) ==
    { s \in [1..n -> clock..MaxClock] :
        \A i \in 1..n : \A j \in 1..n : i <= j => s[i] <= s[j] }

\* History of committed writes: the last entry of the batch for each date.
BatchDates(batch) == { batch[i].date : i \in 1..Len(batch) }
LastIndexOf(batch, d) ==
    CHOOSE i \in 1..Len(batch) :
        /\ batch[i].date = d
        /\ \A j \in 1..Len(batch) : batch[j].date = d => j <= i
NoWrite == [written |-> FALSE, entry |-> MkEntry(NULL, NULL, RestNone),
            at |-> 0]
Recorded(batch, stamps, committed) ==
    [d \in Dates |->
        IF committed /\ d \in BatchDates(batch)
        THEN [written |-> TRUE, entry |-> batch[LastIndexOf(batch, d)],
              at |-> stamps[LastIndexOf(batch, d)]]
        ELSE upserted[d]]

\* if not entries: return 0
EarlyReturnNever(batch) == FALSE

EarlyReturn(batch) == batch = <<>>

\* return len(entries)
ReturnValueDistinctDates(batch) == Cardinality(BatchDates(batch))

ReturnValue(batch) == Len(batch)

\* the clock when the last statement of the batch has run
LastStamp(stamps) == IF stamps = <<>> THEN clock ELSE stamps[Len(stamps)]

persist_entries(batch) ==
    /\ lastBatch' = batch
    /\ repeated' = (lastOutcome = "returned" /\ lastBatch = batch)
    /\ IF EarlyReturn(batch)
       THEN /\ lastReturn' = 0
            /\ lastOutcome' = "returned"
            /\ opened' = FALSE
            /\ UNCHANGED <<rows, schema, clock, upserted>>
       ELSE \E stamps \in StampSeqs(Len(batch)) :
              LET r == executemany(rows, batch, stamps, 1)
              IN /\ opened' = TRUE
                 /\ schema' = ensure_schema(schema)
                 /\ rows' = ConnectionExit(rows, r)
                 /\ clock' = LastStamp(stamps)
                 /\ lastOutcome' = IF r.ok THEN "returned" ELSE "raised"
                 /\ lastReturn' = IF r.ok THEN ReturnValue(batch) ELSE NoReturn
                 /\ upserted' = Recorded(batch, stamps, r.ok)
    /\ UNCHANGED <<fetchVars, resolveVars>>

Persist == \E batch \in Batches : persist_entries(batch)

\* Time passes between calls.
Tick ==
    /\ clock < MaxClock
    /\ clock' = clock + 1
    /\ UNCHANGED <<rows, schema, lastBatch, lastOutcome, lastReturn,
                   upserted, opened, repeated>>
    /\ UNCHANGED <<fetchVars, resolveVars>>

StoreInit ==
    /\ rows = <<>>
    /\ schema = {}
    /\ clock = 0
    /\ lastBatch = <<>>
    /\ lastOutcome = "none"
    /\ lastReturn = NoReturn
    /\ upserted = [d \in Dates |-> NoWrite]
    /\ opened = FALSE
    /\ repeated = FALSE

(***************************************************************************)
(* Fetcher: HTTP responses                                                 *)
(***************************************************************************)
RetryWaits == {1, 5}
HeaderChars == {"2", "-", "x"}
Statuses == {200, 403, 429, 500}

NoHeader == [present |-> FALSE, text |-> <<>>]
RetryAfterHeaders ==
    {NoHeader} \cup
    { [present |-> TRUE, text |-> t] :
        t \in SeqsUpTo(HeaderChars, MaxHeaderLen) \ {<<>>} }

\* JSON objects of a payload; ABSENT marks a key the object does not have.
RawEntries ==
    { MkEntry("2024-02-01", "Y", RestFull),
      MkEntry("2024-02-02", "Z", RestMissing),
      MkEntry(NULL, "X", RestFull),
      MkEntry(ABSENT, "X", RestNone),
      MkEntry("", "X", RestMissing),
      MkEntry("2024-02-01", NULL, RestFull),
      MkEntry("2024-02-02", ABSENT, RestNone),
      MkEntry("2024-02-01", "", RestMissing) }
ErrorObject == MkEntry(ABSENT, ABSENT, RestMissing)

TextBody == [type |-> "text", object |-> ErrorObject, array |-> <<>>]
NoBody == [type |-> "none", object |-> ErrorObject, array |-> <<>>]
ObjectBody(o) == [type |-> "object", object |-> o, array |-> <<>>]
ArrayBody(s) == [type |-> "array", object |-> ErrorObject, array |-> s]

JsonPayloads(n) ==
    { ObjectBody(o) : o \in RawEntries } \cup
    { ArrayBody(s) : s \in SeqsUpTo(RawEntries, n) }
Payloads == JsonPayloads(MaxPayloadLen)

BodiesOf(status) ==
    IF status = 200 THEN {TextBody} \cup Payloads
    ELSE {TextBody, ObjectBody(ErrorObject)}

Responses ==
    UNION { { [status |-> st, header |-> h, body |-> b] :
                h \in (IF st = 429 THEN RetryAfterHeaders ELSE {NoHeader}),
                b \in BodiesOf(st) } : st \in Statuses }

NoResponse == [status |-> 0, header |-> NoHeader, body |-> NoBody]

(***************************************************************************)
(* Fetcher: helper functions                                               *)
(***************************************************************************)
Digits == {"0", "1", "2", "3", "4", "5", "6", "7", "8", "9"}
DigitVal(c) ==
    CASE c = "0" -> 0 [] c = "1" -> 1 [] c = "2" -> 2 [] c = "3" -> 3
      [] c = "4" -> 4 [] c = "5" -> 5 [] c = "6" -> 6 [] c = "7" -> 7
      [] c = "8" -> 8 [] c = "9" -> 9

RECURSIVE DecimalValue(_, _)
DecimalValue(s, acc) ==
    IF s = <<>> THEN acc
    ELSE DecimalValue(Tail(s), acc * 10 + DigitVal(Head(s)))

\* Python int() of a string made of sign and digit characters.
int_str(s) ==
    LET signed == s # <<>> /\ Head(s) \in {"-", "+"}
        body == IF signed THEN Tail(s) ELSE s
        ok == body # <<>> /\ \A i \in 1..Len(body) : body[i] \in Digits
        mag == IF ok THEN DecimalValue(body, 0) ELSE 0
    IN [ok |-> ok,
        value |-> IF signed /\ Head(s) = "-" THEN 0 - mag ELSE mag]

\* int(response.headers.get("Retry-After", retry_wait))
WaitSeconds(header, default) ==
    IF header.present THEN int_str(header.text)
    ELSE [ok |-> TRUE, value |-> default]

\* entry.get(key)
Get(entry, key) == IF entry[key] = ABSENT THEN NULL ELSE entry[key]

\* Python truthiness of a str-or-None value
Truthy(v) == v # NULL /\ v # ""

\* entries = payload if isinstance(payload, list) else [payload]
Candidates(body) ==
    IF body.type = "array" THEN body.array ELSE <<body.object>>

NormalizedEntry(entry) ==
    [date |-> Get(entry, "date"), title |-> Get(entry, "title"),
     explanation |-> Get(entry, "explanation"),
     media_type |-> Get(entry, "media_type"), url |-> Get(entry, "url"),
     hdurl |-> Get(entry, "hdurl"),
     thumbnail_url |-> Get(entry, "thumbnail_url"),
     service_version |-> Get(entry, "service_version"),
     copyright |-> Get(entry, "copyright")]

SkippedDateOnly(entry) == ~Truthy(Get(entry, "date"))

Skipped(entry) ==
    ~Truthy(Get(entry, "date")) \/ ~Truthy(Get(entry, "title"))

RECURSIVE Normalize(_)
Normalize(entries) ==
    IF entries = <<>> THEN <<>>
    ELSE IF Skipped(Head(entries)) THEN Normalize(Tail(entries))
    ELSE <<NormalizedEntry(Head(entries))>> \o Normalize(Tail(entries))

NoException == [kind |-> "none", status |-> 0, body |-> NoBody,
                last_error |-> "None"]
Exception(k, st, b, le) ==
    [kind |-> k, status |-> st, body |-> b, last_error |-> le]

(***************************************************************************)
(* Fetcher: the retry loop of fetch_apod_range, one action per branch of   *)
(* one iteration                                                           *)
(***************************************************************************)
\* for attempt in range(retries + 1)
InLoop == fpc = "loop" /\ attempt <= retries

\* if attempt == retries: raise
IsLastAttemptOffByOne == attempt + 1 = retries

IsLastAttempt == attempt = retries

\* The branch one iteration takes for a response, in the order of the code.
BranchRetriesNonJson(resp) ==
    IF resp.status = 429 /\ attempt < retries THEN "rate_limited"
    ELSE IF resp.status >= 500 /\ attempt < retries THEN "server_error"
    ELSE IF resp.body.type = "text" /\ attempt < retries THEN "server_error"
    ELSE IF resp.body.type = "text" THEN "non_json"
    ELSE IF resp.status # 200 THEN "status_error"
    ELSE "break"

BranchRetriesOnLastAttempt(resp) ==
    IF resp.status = 429 /\ attempt < retries THEN "rate_limited"
    ELSE IF resp.status >= 500 /\ attempt <= retries THEN "server_error"
    ELSE IF resp.body.type = "text" THEN "non_json"
    ELSE IF resp.status # 200 THEN "status_error"
    ELSE "break"

Branch(resp) ==
    IF resp.status = 429 /\ attempt < retries THEN "rate_limited"
    ELSE IF resp.status >= 500 /\ attempt < retries THEN "server_error"
    ELSE IF resp.body.type = "text" THEN "non_json"
    ELSE IF resp.status # 200 THEN "status_error"
    ELSE "break"

\* time.sleep(seconds); continue
SleepAndRepeatAttempt(seconds, le) ==
    IF seconds < 0
    THEN /\ fpc' = "raised"
         /\ raised' = Exception("ValueError", 0, NoBody, le)
         /\ UNCHANGED <<sleeps, attempt>>
    ELSE /\ sleeps' = Append(sleeps, seconds)
         /\ UNCHANGED <<attempt, fpc, raised>>

SleepAndContinue(seconds, le) ==
    IF seconds < 0
    THEN /\ fpc' = "raised"
         /\ raised' = Exception("ValueError", 0, NoBody, le)
         /\ UNCHANGED <<sleeps, attempt>>
    ELSE /\ sleeps' = Append(sleeps, seconds)
         /\ attempt' = attempt + 1
         /\ UNCHANGED <<fpc, raised>>

Issue(outcome) ==
    /\ requests' = requests + 1
    /\ statuses' = Append(statuses, outcome.status)
    /\ last' = outcome

\* requests.get raised requests.RequestException
RequestFailed ==
    /\ InLoop
    /\ Issue(NoResponse)
    /\ last_error' = "RequestException"
    /\ IF IsLastAttempt
       THEN /\ fpc' = "raised"
            /\ raised' = Exception("RequestException", 0, NoBody,
                                   "RequestException")
            /\ UNCHANGED <<sleeps, attempt>>
       ELSE SleepAndContinue(retry_wait, "RequestException")
    /\ UNCHANGED <<retries, retry_wait, payload, result>>
    /\ UNCHANGED <<storeVars, resolveVars>>

RateLimited ==
    /\ InLoop
    /\ \E resp \in Responses :
         /\ Branch(resp) = "rate_limited"
         /\ Issue(resp)
         /\ LET w == WaitSeconds(resp.header, retry_wait)
            IN IF w.ok
               THEN SleepAndContinue(w.value, last_error)
               ELSE /\ fpc' = "raised"
                    /\ raised' = Exception("ValueError", 0, NoBody,
                                           last_error)
                    /\ UNCHANGED <<sleeps, attempt>>
    /\ UNCHANGED <<retries, retry_wait, last_error, payload, result>>
    /\ UNCHANGED <<storeVars, resolveVars>>

ServerError ==
    /\ InLoop
    /\ \E resp \in Responses :
         /\ Branch(resp) = "server_error"
         /\ Issue(resp)
         /\ SleepAndContinue(retry_wait, last_error)
    /\ UNCHANGED <<retries, retry_wait, last_error, payload, result>>
    /\ UNCHANGED <<storeVars, resolveVars>>

\* response.json() raised ValueError
NonJsonResponse ==
    /\ InLoop
    /\ \E resp \in Responses :
         /\ Branch(resp) = "non_json"
         /\ Issue(resp)
         /\ fpc' = "raised"
         /\ raised' = Exception("NonJson", 0, resp.body, last_error)
    /\ UNCHANGED <<retries, retry_wait, attempt, sleeps, last_error,
                   payload, result>>
    /\ UNCHANGED <<storeVars, resolveVars>>

\* response.status_code != 200
StatusError ==
    /\ InLoop
    /\ \E resp \in Responses :
         /\ Branch(resp) = "status_error"
         /\ Issue(resp)
         /\ payload' = resp.body
         /\ fpc' = "raised"
         /\ raised' = Exception("ApiStatus", resp.status, resp.body,
                                last_error)
    /\ UNCHANGED <<retries, retry_wait, attempt, sleeps, last_error, result>>
    /\ UNCHANGED <<storeVars, resolveVars>>

\* a 200 response with a JSON body: break
Success ==
    /\ InLoop
    /\ \E resp \in Responses :
         /\ Branch(resp) = "break"
         /\ Issue(resp)
         /\ payload' = resp.body
         /\ fpc' = "normalize"
    /\ UNCHANGED <<retries, retry_wait, attempt, sleeps, last_error, raised,
                   result>>
    /\ UNCHANGED <<storeVars, resolveVars>>

\* after the loop: normalization of the payload, and return
NormalizePayload ==
    /\ fpc = "normalize"
    /\ result' = Normalize(Candidates(payload))
    /\ fpc' = "returned"
    /\ UNCHANGED <<retries, retry_wait, attempt, requests, sleeps, statuses,
                   last, last_error, raised, payload>>
    /\ UNCHANGED <<storeVars, resolveVars>>

\* the else clause of the for statement
LoopElse ==
    /\ fpc = "loop"
    /\ attempt > retries
    /\ fpc' = "raised"
    /\ raised' = Exception("Exhausted", 0, NoBody, last_error)
    /\ UNCHANGED <<retries, retry_wait, attempt, requests, sleeps, statuses,
                   last, last_error, payload, result>>
    /\ UNCHANGED <<storeVars, resolveVars>>

FetchLocals ==
    /\ attempt = 0
    /\ requests = 0
    /\ sleeps = <<>>
    /\ statuses = <<>>
    /\ last = NoResponse
    /\ last_error = "None"
    /\ raised = NoException
    /\ payload = NoBody
    /\ result = <<>>

FetchInit ==
    /\ retries \in -1..MaxRetries
    /\ retry_wait \in RetryWaits
    /\ fpc = "loop"
    /\ FetchLocals

FetchIdle ==
    /\ retries = 0
    /\ retry_wait = 1
    /\ fpc = "idle"
    /\ FetchLocals

(***************************************************************************)
(* resolve_date_range                                                      *)
(* A date is its day number; an optional date is None or <<date>>.         *)
(***************************************************************************)
MaxDay == 4
MaxDays == 3

\* --days default
DefaultDays == 30

None == <<>>
Some(d) == <<d>>
OptionalDates == {None} \cup { Some(d) : d \in 0..MaxDay }
DayCounts == (-1..MaxDays) \cup {DefaultDays}
\* a today inside the range of dates, and one after start + DefaultDays
Todays == {MaxDay \div 2, MaxDay + DefaultDays}

NoRange == <<>>
DaysNotPositive == "ArgumentTypeError: --days must be positive"
StartAfterEnd ==
    "ArgumentTypeError: start date must be on or before end date"

\* if start / if end: a date object is always true, None is false
Given(d) == d # None

\* end = start + dt.timedelta(days=days - 1)
EndFromStartOffByOne(s, n) == s + n

EndFromStart(s, n) == s + (n - 1)

\* start = end - dt.timedelta(days=days - 1)
StartFromEnd(e, n) == e - (n - 1)

\* the if / elif / elif / else chain: the pair (start, end) after it
Defaulted(n, s, e, t) ==
    IF Given(s) /\ Given(e) THEN <<s[1], e[1]>>
    ELSE IF Given(s) /\ ~Given(e) THEN <<s[1], EndFromStart(s[1], n)>>
    ELSE IF Given(e) /\ ~Given(s) THEN <<StartFromEnd(e[1], n), e[1]>>
    ELSE <<StartFromEnd(t, n), t>>

\* if end > today: end = today
ClampNone(e, t) == e

ClampToToday(e, t) == IF e > t THEN t ELSE e

\* if start > end, evaluated after the clamp (e: end before it, ce: after)
InvalidOrderBeforeClamp(s, e, ce) == s > e

InvalidOrder(s, e, ce) == s > ce

resolve_date_range(n, s, e, t) ==
    IF n <= 0
    THEN [ok |-> FALSE, range |-> NoRange, error |-> DaysNotPositive]
    ELSE LET d == Defaulted(n, s, e, t)
             ce == ClampToToday(d[2], t)
         IN IF InvalidOrder(d[1], d[2], ce)
            THEN [ok |-> FALSE, range |-> NoRange, error |-> StartAfterEnd]
            ELSE [ok |-> TRUE, range |-> [start |-> d[1], end |-> ce],
                  error |-> "None"]

Resolve ==
    /\ rpc = "call"
    /\ LET r == resolve_date_range(days, start, end, today)
       IN /\ rpc' = IF r.ok THEN "returned" ELSE "raised"
          /\ resolved' = r.range
          /\ range_error' = r.error
    /\ UNCHANGED <<days, start, end, today>>
    /\ UNCHANGED <<storeVars, fetchVars>>

ResolveInit ==
    /\ days \in DayCounts
    /\ start \in OptionalDates
    /\ end \in OptionalDates
    /\ today \in Todays
    /\ rpc = "call"
    /\ resolved = NoRange
    /\ range_error = "None"

ResolveIdle ==
    /\ days = DefaultDays
    /\ start = None
    /\ end = None
    /\ today = MaxDay
    /\ rpc = "idle"
    /\ resolved = NoRange
    /\ range_error = "None"

(***************************************************************************)
(* main: resolve_date_range, then fetch_apod_range, then persist_entries.  *)
(* An exception of a call ends main; the position of main is the position *)
(* of the three calls.                                                     *)
(***************************************************************************)
\* entries = fetch_apod_range(...): reached when resolve_date_range returned
FetchCall ==
    /\ rpc = "returned"
    /\ fpc = "idle"
    /\ fpc' = "loop"
    /\ UNCHANGED <<retries, retry_wait, attempt, requests, sleeps, statuses,
                   last, last_error, raised, payload, result>>
    /\ UNCHANGED <<storeVars, resolveVars>>

\* stored = persist_entries(args.database, entries): reached when
\* fetch_apod_range returned
ReadyToPersistAfterFailure ==
    /\ rpc = "returned"
    /\ fpc \in {"returned", "raised"}
    /\ lastOutcome = "none"

ReadyToPersist ==
    /\ rpc = "returned"
    /\ fpc = "returned"
    /\ lastOutcome = "none"

PersistCall == ReadyToPersist /\ persist_entries(result)

\* --database: a file that is missing, or one an earlier run wrote a row to
PriorEntry == MkEntry("2024-02-01", "First", RestNone)
PriorRows == <<InsertedRow(PriorEntry, 0)>>
PriorStore ==
    /\ rows = PriorRows
    /\ schema = ensure_schema({})
    /\ clock = 0
    /\ lastBatch = <<>>
    /\ lastOutcome = "none"
    /\ lastReturn = NoReturn
    /\ upserted = [d \in Dates |->
                     IF d = PriorEntry.date
                     THEN [written |-> TRUE, entry |-> PriorEntry, at |-> 0]
                     ELSE NoWrite]
    /\ opened = FALSE
    /\ repeated = FALSE

\* args = parser.parse_args()
MainArgs ==
    /\ days \in {0, 1}
    /\ start \in {None, Some(0), Some(MaxDay)}
    /\ end = None
    /\ today = MaxDay \div 2
    /\ rpc = "call"
    /\ resolved = NoRange
    /\ range_error = "None"
    /\ retries \in -1..1
    /\ retry_wait = 5
    /\ fpc = "idle"
    /\ FetchLocals

(***************************************************************************)
(* Specifications                                                          *)
(***************************************************************************)
InitStore == StoreInit /\ FetchIdle /\ ResolveIdle
NextStore == Persist \/ Tick
SpecStore == InitStore /\ [][NextStore]_vars

InitFetch == StoreInit /\ FetchInit /\ ResolveIdle
NextFetch ==
    \/ RequestFailed
    \/ RateLimited
    \/ ServerError
    \/ NonJsonResponse
    \/ StatusError
    \/ Success
    \/ NormalizePayload
    \/ LoopElse
SpecFetch == InitFetch /\ [][NextFetch]_vars
FairSpecFetch == SpecFetch /\ WF_vars(NextFetch)

\* The normalization on its own: the call has just left the loop on its
\* first response, a 200 with any JSON payload of the bounded shapes.
InitNormalize ==
    /\ StoreInit
    /\ ResolveIdle
    /\ retries \in 0..1
    /\ retry_wait \in RetryWaits
    /\ fpc = "normalize"
    /\ attempt = 0
    /\ requests = 1
    /\ sleeps = <<>>
    /\ statuses = <<200>>
    /\ payload \in JsonPayloads(MaxCandidates)
    /\ last = [status |-> 200, header |-> NoHeader, body |-> payload]
    /\ last_error = "None"
    /\ raised = NoException
    /\ result = <<>>
NextNormalize == NormalizePayload
SpecNormalize == InitNormalize /\ [][NextNormalize]_vars

\* One run of main.
InitMain == (StoreInit \/ PriorStore) /\ MainArgs
NextMain ==
    \/ Resolve
    \/ FetchCall
    \/ RequestFailed
    \/ RateLimited
    \/ ServerError
    \/ NonJsonResponse
    \/ StatusError
    \/ Success
    \/ NormalizePayload
    \/ LoopElse
    \/ PersistCall
SpecMain == InitMain /\ [][NextMain]_vars

\* One call of resolve_date_range.
InitResolve == StoreInit /\ FetchIdle /\ ResolveInit
NextResolve == Resolve
SpecResolve == InitResolve /\ [][NextResolve]_vars

(***************************************************************************)
(* Claims about the store (SpecStore)                                      *)
(***************************************************************************)
RowsFor(tbl, d) == { i \in 1..Len(tbl) : tbl[i].date = d }

\* C1: after any sequence of persist_entries calls the table holds exactly
\* one row for every date a committed call upserted and no other row; the
\* non-key fields of that row are those of the most recent entry upserted
\* for the date (latest call, then latest position in its batch) and its
\* fetched_at is the timestamp of that write.
C1_OneRowPerDateLatestWins ==
    /\ \A i \in 1..Len(rows) : rows[i].date \in Dates
    /\ \A d \in Dates :
         IF upserted[d].written
         THEN /\ Cardinality(RowsFor(rows, d)) = 1
              /\ \A i \in RowsFor(rows, d) :
                   /\ \A f \in NonKeyFields : rows[i][f] = upserted[d].entry[f]
                   /\ rows[i].fetched_at = upserted[d].at
         ELSE RowsFor(rows, d) = {}

\* A batch that repeats a date with two titles was committed over a table
\* that already held the other date: the later title and a newer fetched_at
\* are stored, in one row.
C1_Witness ==
    /\ lastOutcome = "returned"
    /\ Len(lastBatch) = 2
    /\ lastBatch[1].date = lastBatch[2].date
    /\ lastBatch[1].title # lastBatch[2].title
    /\ Len(rows) = 2
    /\ \E i \in 1..2 : \E j \in 1..2 :
         /\ rows[i].date = lastBatch[2].date
         /\ rows[i].title = lastBatch[2].title
         /\ rows[j].date # rows[i].date
         /\ rows[j].fetched_at < rows[i].fetched_at

\* C10: a persist_entries call is atomic.  A call raises exactly when an
\* entry of its batch cannot be written (title NULL); a step that ends in a
\* raised call leaves the rows of the table as they were, and after a call
\* that returned every entry's date has its row.
C10_AtomicBatch ==
    /\ [](lastOutcome = "raised" <=>
            \E i \in 1..Len(lastBatch) : lastBatch[i].title = NULL)
    /\ [](lastOutcome = "returned" =>
            \A i \in 1..Len(lastBatch) :
               \E k \in 1..Len(rows) :
                  /\ rows[k].date = lastBatch[i].date
                  /\ rows[k].title =
                       lastBatch[LastIndexOf(lastBatch, lastBatch[i].date)].title)
    /\ [][lastOutcome' = "raised" => rows' = rows]_vars

\* A batch failed at its second entry after its first entry, an update of
\* an existing row, had been executed: the row still has its old title.
C10_Witness ==
    /\ lastOutcome = "raised"
    /\ Len(lastBatch) = 2
    /\ lastBatch[1].title # NULL
    /\ lastBatch[2].title = NULL
    /\ \E k \in 1..Len(rows) :
         /\ rows[k].date = lastBatch[1].date
         /\ rows[k].title # lastBatch[1].title

\* C11: a persist_entries call that returns on a list of N entries
\* returns N, whatever the table held and however many rows it inserted or
\* changed.
C11_ReturnsInputLength ==
    lastOutcome = "returned" => lastReturn = Len(lastBatch)

\* A returned call whose two entries are for the same date: it returned 2
\* and the table has a single row.
C11_Witness ==
    /\ lastOutcome = "returned"
    /\ Len(lastBatch) = 2
    /\ lastBatch[1].date = lastBatch[2].date
    /\ lastReturn = 2
    /\ Len(rows) = 1

\* C12: persist_entries on an empty list returns 0 without connecting to
\* the database; the schema objects and the rows are left as they were.
C12_EmptyListNoOp ==
    /\ [](lastBatch = <<>> /\ lastOutcome = "returned"
            => lastReturn = 0 /\ ~opened)
    /\ [][lastBatch' = <<>> /\ lastOutcome' = "returned"
            => rows' = rows /\ schema' = schema /\ upserted' = upserted]_vars

\* The empty list was passed while the database had no table: there is
\* still none.
C12_Witness ==
    /\ lastBatch = <<>>
    /\ lastOutcome = "returned"
    /\ lastReturn = 0
    /\ schema = {}
    /\ rows = <<>>
    /\ ~opened

\* C17: a returned persist_entries call that gets the batch of the returned
\* call before it leaves every row's date and non-key fields as that call
\* left them (only fetched_at may change), and no step ever removes a
\* stored date.
Content(tbl) == [i \in 1..Len(tbl) |-> [tbl[i] EXCEPT !.fetched_at = 0]]
StoredDates(tbl) == { tbl[i].date : i \in 1..Len(tbl) }
C17_IdempotentUpsert ==
    /\ [][lastOutcome = "returned" /\ lastOutcome' = "returned"
            /\ lastBatch' = lastBatch
            => Content(rows') = Content(rows)]_vars
    /\ [][StoredDates(rows) \subseteq StoredDates(rows')]_vars

\* The same two-date batch was upserted twice in a row, the second time a
\* second later: both rows carry the newer fetched_at.
C17_Witness ==
    /\ repeated
    /\ lastOutcome = "returned"
    /\ Len(lastBatch) = 2
    /\ lastBatch[1].date # lastBatch[2].date
    /\ Len(rows) = 2
    /\ \A i \in 1..2 : rows[i].fetched_at = 1

(***************************************************************************)
(* Claims about fetch_apod_range (SpecFetch, FairSpecFetch)                *)
(***************************************************************************)
Ended == fpc \in {"returned", "raised"}
RetryableStatus(st) == st = 0 \/ st = 429 \/ st >= 500
LastIndex == requests - 1        \* attempt index of the outcome in last

\* C2: for retries >= 0 and every sequence of request outcomes, a call
\* never issues more than retries + 1 requests and eventually ends, by
\* returning or by raising.
C2_BoundedTermination ==
    /\ [](retries >= 0 => requests <= retries + 1)
    /\ [](retries >= 0 => <>Ended)

\* A call used its whole budget: every attempt but the last was retried and
\* the last one succeeded.
C2_Witness ==
    /\ retries >= 2
    /\ requests = retries + 1
    /\ fpc = "returned"

\* C3: when all retries + 1 attempts ended in a network failure, a 429 or a
\* 5xx, the call fails with the "Failed to fetch ... after N attempts"
\* error (ExhaustedRetries), not with another failure kind.
C3_ExhaustedRetries ==
    ( /\ retries >= 0
      /\ Ended
      /\ requests = retries + 1
      /\ \A i \in 1..Len(statuses) : RetryableStatus(statuses[i]) )
    => (fpc = "raised" /\ raised.kind = "Exhausted")

\* C4: a response whose status is neither 200, 429 nor >= 500 ends the call
\* at that attempt with the status error carrying the status and the body;
\* no sleep follows it and no further request is issued.
C4_NonRetryableStatus ==
    (requests > 0 /\ last.status \notin {0, 200, 429} /\ last.status < 500)
    => /\ fpc = "raised"
       /\ raised.kind = "ApiStatus"
       /\ raised.status = last.status
       /\ raised.body = last.body
       /\ Len(sleeps) = requests - 1
       /\ attempt = LastIndex

\* C5: a 429 received with attempts remaining is followed by exactly one
\* sleep, of the Retry-After value when the header is present and an
\* integer and of retry_wait otherwise, and the loop goes on to the next
\* attempt.
C5_RateLimitedSleep ==
    (requests > 0 /\ last.status = 429 /\ LastIndex < retries)
    => /\ fpc = "loop"
       /\ attempt = requests
       /\ Len(sleeps) = requests
       /\ sleeps[Len(sleeps)] =
            (IF last.header.present /\ int_str(last.header.text).ok
             THEN int_str(last.header.text).value
             ELSE retry_wait)

\* C6: retryable outcomes (network failure, 429, 5xx) on attempts before
\* the last never end the call, and a 200 response with a JSON body on
\* attempt k ends it with the normalization of that body, after k + 1
\* requests and k sleeps.
C6_SuccessAfterRetries ==
    /\ (requests > 0 /\ RetryableStatus(last.status) /\ LastIndex < retries)
         => fpc = "loop"
    /\ (requests > 0 /\ last.status = 200 /\ last.body.type # "text")
         => /\ fpc \in {"normalize", "returned"}
            /\ payload = last.body
            /\ fpc = "returned" => result = Normalize(Candidates(last.body))
            /\ requests = LastIndex + 1
            /\ Len(sleeps) = LastIndex
            /\ \A i \in 1..LastIndex : RetryableStatus(statuses[i])

\* C7: a network failure on an attempt before the last is followed by a
\* sleep of retry_wait and the next attempt; on the last attempt it is
\* re-raised (NetworkError) and no sleep follows.
C7_NetworkFailure ==
    (requests > 0 /\ last.status = 0)
    => IF LastIndex < retries
       THEN /\ fpc = "loop"
            /\ attempt = requests
            /\ Len(sleeps) = requests
            /\ sleeps[Len(sleeps)] = retry_wait
            /\ raised = NoException
       ELSE /\ LastIndex = retries
            /\ fpc = "raised"
            /\ raised.kind = "RequestException"
            /\ Len(sleeps) = requests - 1

\* Every attempt failed at the network level: each one before the last was
\* followed by a sleep of retry_wait, the last one raised.
C7_Witness ==
    /\ retries >= 1
    /\ fpc = "raised"
    /\ raised.kind = "RequestException"
    /\ requests = retries + 1
    /\ \A i \in 1..Len(statuses) : statuses[i] = 0
    /\ Len(sleeps) = retries
    /\ \A i \in 1..Len(sleeps) : sleeps[i] = retry_wait

\* C8: a 200 response whose body is not JSON ends the call at that attempt
\* with the non-JSON error carrying the body; it is not retried and no
\* sleep follows it.
C8_NonJson200 ==
    (requests > 0 /\ last.status = 200 /\ last.body.type = "text")
    => /\ fpc = "raised"
       /\ raised.kind = "NonJson"
       /\ raised.body = last.body
       /\ attempt = LastIndex
       /\ Len(sleeps) = requests - 1

\* The first response of a call with retries left is a non-JSON 200.
C8_Witness ==
    /\ retries >= 1
    /\ requests = 1
    /\ last.status = 200
    /\ last.body.type = "text"
    /\ fpc = "raised"
    /\ sleeps = <<>>

\* C9: the returned list is the payload's candidates (the object itself for
\* a single-object payload) without those whose date or title is absent,
\* null or empty, in their original order, each with its nine fields read
\* from the candidate (null for an absent key).
Present(v) == v # ABSENT /\ v # NULL /\ v # ""
C9_Normalization ==
    fpc = "returned" =>
      LET cands == IF payload.type = "array" THEN payload.array
                   ELSE <<payload.object>>
          keep == { i \in 1..Len(cands) :
                      Present(cands[i].date) /\ Present(cands[i].title) }
      IN /\ Len(result) = Cardinality(keep)
         /\ \A i \in keep :
              LET j == Cardinality({ m \in keep : m <= i })
              IN /\ result[j].date = cands[i].date
                 /\ result[j].title = cands[i].title
                 /\ \A f \in RestFields :
                      result[j][f] =
                        (IF cands[i][f] = ABSENT THEN NULL ELSE cands[i][f])
         /\ \A j \in 1..Len(result) :
              Present(result[j].date) /\ Present(result[j].title)

\* An array of three candidates whose middle one lacks a date or a title:
\* the other two are returned, in order.
C9_Witness ==
    /\ fpc = "returned"
    /\ payload.type = "array"
    /\ Len(payload.array) = 3
    /\ Len(result) = 2
    /\ result[1].date = payload.array[1].date
    /\ result[2].date = payload.array[3].date
    /\ result[1].date # result[2].date

\* C18: for retries >= 0, a sleep happens only between two requests: at
\* most retries sleeps occur; while the loop runs every request so far was
\* followed by a sleep and the attempt after it is still to be made; once
\* the call has left the loop (result or failure) the sleeps number the
\* requests minus one.
C18_SleepsBetweenRequests ==
    retries >= 0
        => /\ Len(sleeps) <= retries
           /\ fpc = "loop"
                => Len(sleeps) = requests /\ attempt = requests
                   /\ attempt <= retries
           /\ fpc \in {"normalize", "returned", "raised"}
                => Len(sleeps) = requests - 1

\* A call with retries = 2 that ended after three requests: two sleeps.
C18_Witness ==
    /\ Ended
    /\ retries = 2
    /\ requests = 3
    /\ Len(sleeps) = 2

(***************************************************************************)
(* Claims about resolve_date_range (SpecResolve)                           *)
(***************************************************************************)
ResolveEnded == rpc \in {"returned", "raised"}
StartOnly == Given(start) /\ ~Given(end)
Min(a, b) == IF a <= b THEN a ELSE b

\* C13: for days > 0 and any given or absent start and end, a returned
\* range never ends after today and its start is on or before its end.
C13_RangeWithinToday ==
    rpc = "returned" /\ days > 0
        => resolved.end <= today /\ resolved.start <= resolved.end

\* A returned range whose given end was after today: it ends today.
C13_Witness ==
    /\ rpc = "returned"
    /\ Given(end)
    /\ end[1] > today
    /\ resolved.end = today

\* C14 as stated: given only start and days > 0, the returned range is
\* (start, start + (days - 1)).
C14_StartOnlyUnclamped ==
    rpc = "returned" /\ StartOnly /\ days > 0
        => /\ resolved.start = start[1]
           /\ resolved.end = start[1] + (days - 1)

\* C14 amended: given only start and days > 0, a start after today fails
\* with InvalidRange; otherwise the returned range is
\* (start, min(start + (days - 1), today)), so with days = 30 and
\* start + 29 not after today its end is start + 29.
C14_StartOnlyClamped ==
    ResolveEnded /\ StartOnly /\ days > 0
        => IF start[1] > today
           THEN rpc = "raised" /\ range_error = StartAfterEnd
           ELSE /\ rpc = "returned"
                /\ resolved.start = start[1]
                /\ resolved.end = Min(start[1] + (days - 1), today)
                /\ (days = DefaultDays /\ start[1] + 29 <= today
                      => resolved.end = start[1] + 29)

\* Only start given, days = 30, today at least 29 days later: the range
\* ends 29 days after start.
C14_Witness ==
    /\ rpc = "returned"
    /\ StartOnly
    /\ days = DefaultDays
    /\ resolved.start = start[1]
    /\ resolved.end = start[1] + 29
    /\ resolved.end < today

\* C15: resolve_date_range raises ArgumentTypeError, and returns no range,
\* exactly when days <= 0 or the start is after the end once the absent
\* bounds are defaulted and the end is clamped to today; a given start
\* after a given end raises for every days.
DefaultedStart ==
    IF Given(start) THEN start[1]
    ELSE IF Given(end) THEN end[1] - (days - 1)
    ELSE today - (days - 1)
DefaultedEnd ==
    IF Given(end) THEN end[1]
    ELSE IF Given(start) THEN start[1] + (days - 1)
    ELSE today
C15_InvalidRange ==
    ResolveEnded
        => /\ rpc = "raised"
                <=> (days <= 0 \/ DefaultedStart > Min(DefaultedEnd, today))
           /\ rpc = "raised"
                => /\ resolved = NoRange
                   /\ range_error \in {DaysNotPositive, StartAfterEnd}
           /\ rpc = "returned" => resolved # NoRange /\ range_error = "None"
           /\ Given(start) /\ Given(end) /\ start[1] > end[1]
                => rpc = "raised"

\* A positive days with a given start after the given end, both before
\* today: the call raised.
C15_Witness ==
    /\ rpc = "raised"
    /\ days > 0
    /\ Given(start) /\ Given(end)
    /\ start[1] > end[1]
    /\ end[1] < today
    /\ range_error = StartAfterEnd
    /\ resolved = NoRange

(***************************************************************************)
(* Claims about main (SpecMain)                                            *)
(***************************************************************************)
\* C16: in a run of main, persist_entries is called, and the store
\* written, only once resolve_date_range and fetch_apod_range have both
\* returned: when resolve_date_range raises, fetch_apod_range is not called;
\* when either raises, main ends there without a call of persist_entries
\* and with the rows and schema of before the run; a fetch that raises has
\* produced no list.
C16_PersistOnlyAfterSuccess ==
    /\ [](rpc = "raised" => fpc = "idle")
    /\ [](rpc # "returned" \/ fpc # "returned"
            => lastOutcome = "none" /\ ~opened)
    /\ [](rpc = "raised" \/ fpc = "raised" => ~ENABLED NextMain)
    /\ [](fpc = "raised" => result = <<>>)
    /\ [][rows' # rows \/ schema' # schema \/ lastOutcome' # lastOutcome
            => rpc = "returned" /\ fpc = "returned"]_vars

\* The fetch failed on its second request, over a database that held a
\* row: persist_entries was not called and the row is as it was.
C16_Witness ==
    /\ rpc = "returned"
    /\ fpc = "raised"
    /\ requests = 2
    /\ lastOutcome = "none"
    /\ rows = PriorRows
    /\ result = <<>>

================================================================================
